---- MODULE Spec2Model ----
(***************************************************************************)
(* A model of scratch.py: the RemoteWheelInspector resolver (index lookup, *)
(* candidate selection, metadata fetch, dependency extraction, recursive   *)
(* resolve with a visited set), the wishlist loop of __main__ and the      *)
(* PEP 503 mirror builder download_and_structure.                          *)
(*                                                                         *)
(* Python strings are TLA+ strings; TLC evaluates Len, SubSeq and \o on    *)
(* them, so case-folding, filename parsing and version parsing are         *)
(* computed character by character.                                        *)
(***************************************************************************)
EXTENDS Integers, Sequences, FiniteSets, TLC

VARIABLES
    pc,           \* position of the running script
    packages,     \* __main__: the wishlist read from wishlist.txt
    pkg_i,        \* __main__: index of the wishlist entry being resolved
    all_urls,     \* __main__: all_urls
    returned,     \* history: the list each finished top-level resolve returned
    visited,      \* RemoteWheelInspector.visited
    stack,        \* the activation records of resolve, innermost last
    index,        \* environment: the index response seen for each looked-up name
    wheels,       \* environment: the metadata-fetch response seen for each url
    resolved,     \* history: for each name resolve went through, the url it chose
                  \* and the dependency names it read
    log,          \* history: the remote calls made, in order, each with the wishlist
                  \* entry it was made for
    urls,         \* download_and_structure: the list of urls it is given
    runs,         \* history: the tree and the downloads made when each earlier run of
                  \* download_and_structure on urls ended
    todo,         \* download_and_structure: the urls not yet iterated
    disk,         \* download_and_structure: paths of the files on disk
    index_map,    \* download_and_structure: index_map
    pages,        \* download_and_structure: the listing pages written
    sel_files,    \* candidate selection alone: the listings given
    sel_out,      \* candidate selection alone: the listing chosen
    manifest_lines, \* _parse_deps alone: the lines the manifest was written from
    metadata_str, \* _parse_deps alone: the manifest text
    parse_env,    \* _parse_deps alone: the environment context
    parse_out,    \* _parse_deps alone: the requirements returned
    tag_args,     \* the arguments RemoteWheelInspector is constructed with
    inspector_tags, \* RemoteWheelInspector.target_tags
    parked,       \* a second RemoteWheelInspector: its visited set while it is not running
    switches,     \* history: the wishlist entries before which the script changed
                  \* to the other RemoteWheelInspector
    earlier       \* history: the wishlist and the deduplicated urls of each earlier
                  \* run of the script against the same index

vars == <<pc, packages, pkg_i, all_urls, returned, visited, stack, index, wheels,
          resolved, log, todo, disk, index_map, pages, sel_files, sel_out,
          manifest_lines, metadata_str, parse_env, parse_out, urls, runs,
          tag_args, inspector_tags, parked, switches, earlier>>

\* the variables of the dependency extractor run alone
parse_vars == <<manifest_lines, metadata_str, parse_env, parse_out>>

\* the argument and the earlier runs of the mirror builder
rerun_vars == <<urls, runs>>

\* the construction of the resolver
tag_vars == <<tag_args, inspector_tags>>

\* the second resolver
pair_vars == <<parked, switches>>

(***************************************************************************)
(* Bounds of the model.                                                    *)
(***************************************************************************)
MaxVersion == 2     \* release numbers 0..MaxVersion appear in filenames
MaxFiles == 2       \* listings per index response, candidate selection alone
MaxWish == 2        \* wishlist entries
MaxDepth == 6       \* nested resolve calls explored
MaxUrls == 3        \* urls handed to the mirror builder alone

(***************************************************************************)
(* Python values.                                                          *)
(***************************************************************************)
\* an Optional value: None, or Some(v)
None == [is_none |-> TRUE]
Some(v) == [is_none |-> FALSE, value |-> v]

\* the outcome of a call that raised
Raise == [ok |-> FALSE]
Raises(r) == DOMAIN r = {"ok"} /\ ~r.ok

Max(a, b) == IF a >= b THEN a ELSE b

\* s[i] of a Python string (1-based here)
Char(s, i) == SubSeq(s, i, i)

\* s.startswith(p)
StartsWith(s, p) == Len(s) >= Len(p) /\ SubSeq(s, 1, Len(p)) = p

\* s.endswith(p)
EndsWith(s, p) == Len(s) >= Len(p) /\ SubSeq(s, Len(s) - Len(p) + 1, Len(s)) = p

\* sub in s
Contains(s, sub) ==
    \E i \in 1..(Len(s) - Len(sub) + 1) : SubSeq(s, i, i + Len(sub) - 1) = sub

UpperAlphabet == "ABCDEFGHIJKLMNOPQRSTUVWXYZ"
LowerAlphabet == "abcdefghijklmnopqrstuvwxyz"

UpperLetters == {Char(UpperAlphabet, i) : i \in 1..Len(UpperAlphabet)}
LowerLetters == {Char(LowerAlphabet, i) : i \in 1..Len(LowerAlphabet)}

\* the lower-case letter of each upper-case letter
LowerOf ==
    [c \in UpperLetters |->
        Char(LowerAlphabet, CHOOSE i \in 1..Len(UpperAlphabet) : Char(UpperAlphabet, i) = c)]

LowerChar(c) == IF c \in UpperLetters THEN LowerOf[c] ELSE c

RECURSIVE StrLower(_)
\* str.lower()
StrLower(s) == IF Len(s) = 0 THEN "" ELSE LowerChar(Head(s)) \o StrLower(Tail(s))

RECURSIVE FindFrom(_, _, _)
FindFrom(s, sep, i) ==
    IF i > Len(s) THEN 0 ELSE IF Char(s, i) = sep THEN i ELSE FindFrom(s, sep, i + 1)

\* index of the first occurrence of the one-character sep in s, 0 when absent
Find(s, sep) == FindFrom(s, sep, 1)

RECURSIVE Split(_, _)
\* s.split(sep) for a one-character sep
Split(s, sep) ==
    LET k == Find(s, sep)
    IN  IF k = 0 THEN <<s>>
        ELSE <<SubSeq(s, 1, k - 1)>> \o Split(SubSeq(s, k + 1, Len(s)), sep)

\* the whitespace str.strip() removes
Whitespace == {" ", "\t", "\r", "\n"}

RECURSIVE Strip(_)
\* s.strip()
Strip(s) ==
    IF Len(s) > 0 /\ Head(s) \in Whitespace THEN Strip(Tail(s))
    ELSE IF Len(s) > 0 /\ Char(s, Len(s)) \in Whitespace THEN Strip(SubSeq(s, 1, Len(s) - 1))
    ELSE s

RECURSIVE LineEnd(_, _)
\* index of the first line boundary character of s at or after i, 0 when absent
LineEnd(s, i) ==
    IF i > Len(s) THEN 0 ELSE IF Char(s, i) \in {"\n", "\r"} THEN i ELSE LineEnd(s, i + 1)

RECURSIVE SplitLines(_)
\* s.splitlines(): lines end at \n, \r\n or \r, and the last line needs no end
SplitLines(s) ==
    IF s = "" THEN <<>>
    ELSE LET k == LineEnd(s, 1)
         IN  IF k = 0 THEN <<s>>
             ELSE LET skip == IF Char(s, k) = "\r" /\ k < Len(s) /\ Char(s, k + 1) = "\n"
                              THEN 2 ELSE 1
                  IN  <<SubSeq(s, 1, k - 1)>> \o SplitLines(SubSeq(s, k + skip, Len(s)))

Digits == "0123456789"
DigitChars == {Char(Digits, i) : i \in 1..Len(Digits)}
DigitValue == [c \in DigitChars |-> (CHOOSE i \in 1..Len(Digits) : Char(Digits, i) = c) - 1]
IsDigit(c) == c \in DigitChars
DigitVal(c) == DigitValue[c]

RECURSIVE ToInt(_)
\* int(s) for a non-empty string of digits
ToInt(s) == IF Len(s) = 0 THEN 0
            ELSE 10 * ToInt(SubSeq(s, 1, Len(s) - 1)) + DigitVal(Char(s, Len(s)))

IsNumber(s) == Len(s) > 0 /\ \A i \in 1..Len(s) : IsDigit(Char(s, i))

(***************************************************************************)
(* packaging.version.Version, for final releases N(.N)*: the release tuple.*)
(* Any other string raises InvalidVersion.                                 *)
(***************************************************************************)
IsVersion(s) ==
    LET parts == Split(s, ".") IN \A i \in 1..Len(parts) : IsNumber(parts[i])

\* the release tuple of a valid version string
VersionOf(s) ==
    LET parts == Split(s, ".") IN [i \in 1..Len(parts) |-> ToInt(parts[i])]

\* release tuples compare after padding the shorter with zeros
Seg(v, i) == IF i <= Len(v) THEN v[i] ELSE 0
VersionGreater(v, w) ==
    LET n == Max(Len(v), Len(w))
    IN  \E i \in 1..n : /\ Seg(v, i) > Seg(w, i)
                        /\ \A j \in 1..(i - 1) : Seg(v, j) = Seg(w, j)
VersionEqual(v, w) == \A i \in 1..Max(Len(v), Len(w)) : Seg(v, i) = Seg(w, i)

IsSeparator(c) == c = "-" \/ c = "_" \/ c = "."

RECURSIVE CollapseSeparators(_)
\* re.sub(r"[-_.]+", "-", name): every run of separators becomes one "-"
CollapseSeparators(s) ==
    IF Len(s) = 0 THEN ""
    ELSE IF IsSeparator(Head(s))
         THEN IF Len(s) > 1 /\ IsSeparator(Char(s, 2))
              THEN CollapseSeparators(Tail(s))
              ELSE "-" \o CollapseSeparators(Tail(s))
         ELSE Head(s) \o CollapseSeparators(Tail(s))

\* normalize_name (PEP 503); packaging's canonicalize_name computes the same
NormalizeName(name) == StrLower(CollapseSeparators(name))

(***************************************************************************)
(* packaging.tags.Tag and packaging.utils.parse_wheel_filename.            *)
(***************************************************************************)
Tag(interpreter, abi, platform) ==
    <<StrLower(interpreter), StrLower(abi), StrLower(platform)>>

SeqToSet(s) == {s[i] : i \in 1..Len(s)}

\* parse_tag: the compressed tag set "py2.py3-none-any" expands to every combination
ParseTag(interps, abis, plats) ==
    {Tag(i, a, p) : i \in SeqToSet(Split(interps, ".")),
                    a \in SeqToSet(Split(abis, ".")),
                    p \in SeqToSet(Split(plats, "."))}

\* (name, version, build, tags) of a wheel filename, or Raise for InvalidWheelFilename
ParseWheelFilename(filename) ==
    IF ~EndsWith(filename, ".whl") THEN Raise
    ELSE LET parts == Split(SubSeq(filename, 1, Len(filename) - 4), "-")
             n == Len(parts)
         IN  IF n \notin {5, 6} THEN Raise
             ELSE IF Len(parts[1]) = 0 \/ Contains(parts[1], "__") THEN Raise
             ELSE IF ~IsVersion(parts[2]) THEN Raise
             ELSE [ok |-> TRUE,
                   name |-> NormalizeName(parts[1]),
                   version |-> VersionOf(parts[2]),
                   tags |-> ParseTag(parts[n - 2], parts[n - 1], parts[n])]

(***************************************************************************)
(* The target of the run.                                                  *)
(***************************************************************************)
TARGET_PLATFORM == "manylinux_2_17_x86_64"
TARGET_PYTHON == "311"
IMPLEMENTATION == "cp"

\* _generate_tags with the generic tags ahead of the interpreter's own
GenerateTagsGenericFirst(plat, py_ver, impl) ==
    << Tag("py3", "none", "any"),
       Tag("py2.py3", "none", "any"),
       Tag(impl \o py_ver, impl \o py_ver, plat),
       Tag(impl \o py_ver, "abi3", plat),
       Tag(impl \o py_ver, "none", plat) >>

\* RemoteWheelInspector._generate_tags
GenerateTags(plat, py_ver, impl) ==
    << Tag(impl \o py_ver, impl \o py_ver, plat),
       Tag(impl \o py_ver, "abi3", plat),
       Tag(impl \o py_ver, "none", plat),
       Tag("py3", "none", "any"),
       Tag("py2.py3", "none", "any") >>

target_tags == GenerateTags(TARGET_PLATFORM, TARGET_PYTHON, IMPLEMENTATION)

\* RemoteWheelInspector.__init__: env_context
EnvContext(platform_tag, python_version, implementation) ==
    [python_version |-> Char(python_version, 1) \o "." \o SubSeq(python_version, 2, Len(python_version)),
     sys_platform |-> IF Contains(platform_tag, "linux") THEN "linux"
                      ELSE IF Contains(platform_tag, "win") THEN "win32" ELSE "darwin",
     platform_machine |-> IF Contains(platform_tag, "x86_64") \/ Contains(platform_tag, "amd64")
                          THEN "x86_64" ELSE "arm64",
     implementation_name |-> IF implementation = "cp" THEN "cpython" ELSE "pypy"]

env_context == EnvContext(TARGET_PLATFORM, TARGET_PYTHON, IMPLEMENTATION)

(***************************************************************************)
(* Candidate selection: the loop of resolve over the listings of a package.*)
(***************************************************************************)
\* any(ft in self.target_tags for ft in file_tags)
Matched(file_tags, targets) == \E ft \in file_tags : ft \in SeqToSet(targets)

\* the initial best_candidate_version, Version("0.0.0")
InitialBestVersion == VersionOf("0.0.0")

\* one iteration of `for file in files`; best = [candidate, version]
SelectStep(best, file, targets) ==
    LET filename == file.filename
    IN  IF ~EndsWith(filename, ".whl") THEN best
        ELSE LET parsed == ParseWheelFilename(filename)
             IN  IF ~parsed.ok THEN best
                 ELSE IF Matched(parsed.tags, targets) /\ VersionGreater(parsed.version, best.version)
                      THEN [candidate |-> Some([url |-> file.url, filename |-> filename]),
                            version |-> parsed.version]
                      ELSE best

RECURSIVE SelectLoop(_, _, _)
SelectLoop(best, files, targets) ==
    IF files = <<>> THEN best
    ELSE SelectLoop(SelectStep(best, Head(files), targets), Tail(files), targets)

\* best_candidate after the loop: Some([url, filename]) or None
SelectCandidate(files, targets) ==
    SelectLoop([candidate |-> None, version |-> InitialBestVersion], files, targets).candidate

(***************************************************************************)
(* Index Lookup.  An index response is                                     *)
(*   [exc |-> TRUE]                           session.get raised (network  *)
(*                                            error, timeout), or          *)
(*   [exc |-> FALSE, status_code, json]       json = None when resp.json() *)
(*                                            raises, else Some(object).   *)
(***************************************************************************)
\* _fetch_simple_links without its try/except: a failed request propagates
FetchSimpleLinksUncaught(resp) ==
    IF resp.exc THEN Raise
    ELSE IF resp.status_code = 404 THEN None
    ELSE IF resp.json.is_none THEN Raise
    ELSE IF "files" \in DOMAIN resp.json.value THEN Some(resp.json.value.files)
    ELSE Some(<<>>)

\* RemoteWheelInspector._fetch_simple_links: None or Some(list of listings)
FetchSimpleLinks(resp) ==
    IF resp.exc THEN None
    ELSE IF resp.status_code = 404 THEN None
    ELSE IF resp.json.is_none THEN None
    ELSE IF "files" \in DOMAIN resp.json.value THEN Some(resp.json.value.files)
    ELSE Some(<<>>)

(***************************************************************************)
(* Metadata Fetcher.  A wheel response is [exc |-> TRUE] (head or get      *)
(* raised) or [exc |-> FALSE, zip], zip = None when the bytes are no zip   *)
(* archive, else Some(members), a member being [name, text] with text =    *)
(* None when its bytes do not decode.                                      *)
(***************************************************************************)
RECURSIVE FirstMetadata(_)
\* the loop over zip_ref.namelist()
FirstMetadata(members) ==
    IF members = <<>> THEN None
    ELSE IF EndsWith(Head(members).name, ".dist-info/METADATA")
         THEN Head(members).text
         ELSE FirstMetadata(Tail(members))

\* _get_remote_metadata without its try/except: a failed fetch propagates
GetRemoteMetadataUncaught(resp) ==
    IF resp.exc THEN Raise
    ELSE IF resp.zip.is_none THEN Raise
    ELSE FirstMetadata(resp.zip.value)

\* RemoteWheelInspector._get_remote_metadata: None or Some(text)
GetRemoteMetadata(resp) ==
    IF resp.exc THEN None
    ELSE IF resp.zip.is_none THEN None
    ELSE FirstMetadata(resp.zip.value)

(***************************************************************************)
(* Dependency Extractor.  packaging.requirements.Requirement for the       *)
(* grammar  name [op version] [; var op "value"]  ; anything else raises   *)
(* InvalidRequirement.                                                     *)
(***************************************************************************)
IsLetter(c) == c \in UpperLetters \/ c \in LowerLetters

IsNameChar(c) == IsLetter(c) \/ IsDigit(c) \/ IsSeparator(c)

RECURSIVE NameLen(_)
\* length of the leading run of name characters
NameLen(s) == IF Len(s) > 0 /\ IsNameChar(Head(s)) THEN 1 + NameLen(Tail(s)) ELSE 0

\* a version specifier: one comparison operator and a release
IsSpecifier(s) ==
    \/ /\ Len(s) > 2
       /\ SubSeq(s, 1, 2) \in {"==", ">=", "<=", "!=", "~="}
       /\ IsVersion(Strip(SubSeq(s, 3, Len(s))))
    \/ /\ Len(s) > 1
       /\ Char(s, 1) \in {">", "<"}
       /\ Char(s, 2) # "="
       /\ IsVersion(Strip(SubSeq(s, 2, Len(s))))

\* a marker  var op "value"  over the variables of the environment context
ParseMarker(s, env) ==
    LET toks == Split(s, " ")
    IN  IF /\ Len(toks) = 3
           /\ toks[1] \in DOMAIN env
           /\ toks[2] \in {"==", "!="}
           /\ Len(toks[3]) >= 2
           /\ Char(toks[3], 1) = "\""
           /\ Char(toks[3], Len(toks[3])) = "\""
        THEN [ok |-> TRUE, var |-> toks[1], op |-> toks[2],
              value |-> SubSeq(toks[3], 2, Len(toks[3]) - 1)]
        ELSE Raise

\* Requirement(req_str): [ok, name, marker] or Raise
ParseRequirement(req_str, env) ==
    LET k == Find(req_str, ";")
        head == Strip(IF k = 0 THEN req_str ELSE SubSeq(req_str, 1, k - 1))
        n == NameLen(head)
        rest == Strip(SubSeq(head, n + 1, Len(head)))
        marker == IF k = 0 THEN None
                  ELSE Some(ParseMarker(Strip(SubSeq(req_str, k + 1, Len(req_str))), env))
    IN  IF n = 0 \/ IsSeparator(Char(head, 1)) \/ IsSeparator(Char(head, n)) THEN Raise
        ELSE IF rest # "" /\ ~IsSpecifier(rest) THEN Raise
        ELSE IF ~marker.is_none /\ ~marker.value.ok THEN Raise
        ELSE [ok |-> TRUE, name |-> SubSeq(head, 1, n), marker |-> marker]

\* req.marker.evaluate(self.env_context)
MarkerEvaluate(m, env) ==
    IF m.op = "==" THEN env[m.var] = m.value ELSE env[m.var] # m.value

\* _parse_deps keeping a requirement whatever its marker says
ParseDepsStepAnyMarker(deps, line, env) ==
    IF StartsWith(line, "Requires-Dist:")
    THEN LET req == ParseRequirement(Strip(SubSeq(line, Find(line, ":") + 1, Len(line))), env)
         IN  IF ~req.ok THEN deps ELSE Append(deps, req)
    ELSE deps

\* one iteration of the loop of _parse_deps over the lines
ParseDepsStep(deps, line, env) ==
    IF StartsWith(line, "Requires-Dist:")
    THEN LET req == ParseRequirement(Strip(SubSeq(line, Find(line, ":") + 1, Len(line))), env)
         IN  IF ~req.ok THEN deps
             ELSE IF ~req.marker.is_none /\ ~MarkerEvaluate(req.marker.value, env) THEN deps
             ELSE Append(deps, req)
    ELSE deps

RECURSIVE ParseDepsLoop(_, _, _)
ParseDepsLoop(deps, lines, env) ==
    IF lines = <<>> THEN deps
    ELSE ParseDepsLoop(ParseDepsStep(deps, Head(lines), env), Tail(lines), env)

\* RemoteWheelInspector._parse_deps: the requirements kept, in manifest order
ParseDeps(text, env) == ParseDepsLoop(<<>>, SplitLines(text), env)

(***************************************************************************)
(* The environment: what the index and the file host may answer.           *)
(***************************************************************************)
FILES_URL == "https://files.example/"

Listing(filename) == [filename |-> filename, url |-> FILES_URL \o filename]

\* a source distribution, a wheel whose filename does not parse, a non-matching
\* 2.0.0 wheel and a matching 1.0.0 wheel
ListingsMixed(p) ==
    << Listing(p \o "-2.0.0.tar.gz"),
       Listing(p \o "-3.0.0.whl"),
       Listing(p \o "-2.0.0-cp311-cp311-win_amd64.whl"),
       Listing(p \o "-1.0.0-py3-none-any.whl") >>

\* one matching wheel, at version 0.0.0
ListingsZero(p) == << Listing(p \o "-0.0.0-py3-none-any.whl") >>

\* no wheel for the target
ListingsForeign(p) == << Listing(p \o "-2.0.0-cp311-cp311-win_amd64.whl") >>

HttpOk(files) == [exc |-> FALSE, status_code |-> 200, json |-> Some([files |-> files])]
HttpNotFound == [exc |-> FALSE, status_code |-> 404, json |-> None]
HttpErrorJson(files) == [exc |-> FALSE, status_code |-> 500, json |-> Some([files |-> files])]
TransportError == [exc |-> TRUE]

RECURSIVE Underscored(_)
\* s with every "-" written "_", as a wheel filename spells a distribution name
Underscored(s) ==
    IF Len(s) = 0 THEN ""
    ELSE (IF Head(s) = "-" THEN "_" ELSE Head(s)) \o Underscored(Tail(s))

\* the answers of the index for the name p: the index serves a project under
\* every spelling of its name, and its files spell the name one way
IndexResponses(p) ==
    LET dist == Underscored(NormalizeName(p))
    IN  { HttpNotFound, TransportError,
          HttpErrorJson(ListingsMixed(dist)),
          HttpOk(ListingsMixed(dist)), HttpOk(ListingsZero(dist)), HttpOk(ListingsForeign(dist)) }

\* os.path.basename(urlparse(url).path)
Basename(url) == LET parts == Split(url, "/") IN parts[Len(parts)]

\* the METADATA texts a wheel of the distribution `name` may carry
ManifestsOf(name) ==
    IF name = "a" THEN
        { "Name: a\nRequires-Dist: b\nRequires-Dist: c >=1.0",
          "Requires-Dist: b; sys_platform == \"win32\"\nRequires-Dist: c; sys_platform == \"linux\"" }
    ELSE IF name = "b" THEN { "Requires-Dist: d\nRequires-Dist: A" }
    ELSE IF name = "c" THEN { "Requires-Dist: d >< 1\nRequires-Dist: d\nRequires-Dist: C\nRequires-Dist: b" }
    ELSE IF name = "my_pkg" THEN { "Requires-Dist: My.Pkg" }
    ELSE { "Requires-Dist: a\nRequires-Dist: d" }

WheelZip(name, text) ==
    [exc |-> FALSE,
     zip |-> Some(<< [name |-> name \o "/__init__.py", text |-> None],
                     [name |-> name \o "-1.0.0.dist-info/METADATA", text |-> Some(text)] >>)]
WheelNoManifest(name) ==
    [exc |-> FALSE, zip |-> Some(<< [name |-> name \o "/__init__.py", text |-> None] >>)]
\* bytes that are no zip archive: zipfile.ZipFile raises BadZipFile
WheelNotZip == [exc |-> FALSE, zip |-> None]

\* the answers of the file host for the wheel at url
WheelResponses(url) ==
    LET name == Split(Basename(url), "-")[1]
    IN  { TransportError, WheelNotZip, WheelNoManifest(name) }
        \cup { WheelZip(name, m) : m \in ManifestsOf(name) }

\* the names a wishlist may hold
WishNames == {"a", "d", "A"}

RECURSIVE SeqsUpTo(_, _)
\* the sequences over S of length at most n
SeqsUpTo(S, n) ==
    IF n = 0 THEN {<<>>}
    ELSE LET shorter == SeqsUpTo(S, n - 1)
         IN  shorter \cup {Append(q, x) : q \in shorter, x \in S}

\* list(S) of a Python set: its elements once each, in an order not specified
ListOfSet(S) ==
    {q \in SeqsUpTo(S, Cardinality(S)) : Len(q) = Cardinality(S) /\ SeqToSet(q) = S}

(***************************************************************************)
(* resolve.  An activation record is                                       *)
(*   [package_name, at, results, dependencies]                             *)
(* at = "fetch" (before line 96), "meta" (before line 125) or "deps" (in   *)
(* the loop of line 128, dependencies holding what is left of it).         *)
(***************************************************************************)
Top == stack[Len(stack)]
Pop == SubSeq(stack, 1, Len(stack) - 1)
SetTop(stk, f) == [stk EXCEPT ![Len(stk)] = f]

\* results.extend putting what the dependency returned ahead of the caller's results
ReturnToFront(stk, value) ==
    IF stk = <<>>
    THEN /\ stack' = <<>>
         /\ all_urls' = IF value # <<>> THEN all_urls \o value ELSE all_urls
         /\ returned' = Append(returned, value)
         /\ pkg_i' = pkg_i + 1
    ELSE /\ stack' = SetTop(stk, [stk[Len(stk)] EXCEPT !.results = value \o @])
         /\ UNCHANGED <<all_urls, returned, pkg_i>>

\* resolve without line 130's extend: what a dependency returned is dropped
ReturnToDropping(stk, value) ==
    IF stk = <<>>
    THEN /\ stack' = <<>>
         /\ all_urls' = IF value # <<>> THEN all_urls \o value ELSE all_urls
         /\ returned' = Append(returned, value)
         /\ pkg_i' = pkg_i + 1
    ELSE /\ stack' = stk
         /\ UNCHANGED <<all_urls, returned, pkg_i>>

\* `return value` of the resolve call whose callers are stk
ReturnTo(stk, value) ==
    IF stk = <<>>
    THEN /\ stack' = <<>>
         /\ all_urls' = IF value # <<>> THEN all_urls \o value ELSE all_urls
         /\ returned' = Append(returned, value)
         /\ pkg_i' = pkg_i + 1
    ELSE /\ stack' = SetTop(stk, [stk[Len(stk)] EXCEPT !.results = @ \o value])
         /\ UNCHANGED <<all_urls, returned, pkg_i>>

\* an exception leaves every resolve call and ends the script
Propagate ==
    /\ pc' = "crashed"
    /\ stack' = <<>>
    /\ UNCHANGED <<all_urls, returned, pkg_i>>

\* resolve without line 94: the name is never marked visited
EnterNoMark(stk, name) ==
    LET package_name == StrLower(name)
    IN  IF Len(stk) >= MaxDepth
        THEN Propagate /\ UNCHANGED visited
        ELSE IF package_name \in visited
        THEN ReturnTo(stk, <<>>) /\ UNCHANGED <<visited, pc>>
        ELSE /\ visited' = visited
             /\ stack' = Append(stk, [package_name |-> package_name, at |-> "fetch",
                                      results |-> <<>>, dependencies |-> <<>>])
             /\ UNCHANGED <<all_urls, returned, pkg_i, pc>>

\* resolve without lines 90-91: a visited name is resolved again
EnterNoCheck(stk, name) ==
    LET package_name == StrLower(name)
    IN  IF Len(stk) >= MaxDepth
        THEN Propagate /\ UNCHANGED visited
        ELSE /\ visited' = visited \cup {package_name}
             /\ stack' = Append(stk, [package_name |-> package_name, at |-> "fetch",
                                      results |-> <<>>, dependencies |-> <<>>])
             /\ UNCHANGED <<all_urls, returned, pkg_i, pc>>

\* lines 88-94: the call resolve(name) from the callers stk
Enter(stk, name) ==
    LET package_name == StrLower(name)
    IN  IF Len(stk) >= MaxDepth
        THEN Propagate /\ UNCHANGED visited
        ELSE IF package_name \in visited
        THEN ReturnTo(stk, <<>>) /\ UNCHANGED <<visited, pc>>
        ELSE /\ visited' = visited \cup {package_name}
             /\ stack' = Append(stk, [package_name |-> package_name, at |-> "fetch",
                                      results |-> <<>>, dependencies |-> <<>>])
             /\ UNCHANGED <<all_urls, returned, pkg_i, pc>>

\* __main__ line 241: resolve(pkg) for the next wishlist entry
MainCallResolve ==
    /\ pc = "wishlist"
    /\ stack = <<>>
    /\ pkg_i <= Len(packages)
    /\ Enter(<<>>, packages[pkg_i])
    /\ UNCHANGED <<packages, index, wheels, resolved, log, todo, disk, index_map, pages, sel_files, sel_out, parse_vars, rerun_vars, tag_vars, pair_vars, earlier>>

\* lines 96-123: index lookup and candidate selection
ResolveFetch ==
    /\ pc = "wishlist"
    /\ stack # <<>>
    /\ Top.at = "fetch"
    /\ \E resp \in (IF Top.package_name \in DOMAIN index
                    THEN {index[Top.package_name]} ELSE IndexResponses(Top.package_name)) :
         LET files == FetchSimpleLinks(resp)
         IN  /\ index' = (Top.package_name :> resp) @@ index
             /\ log' = Append(log, [call |-> "lookup", arg |-> Top.package_name, entry |-> pkg_i])
             /\ IF Raises(files) THEN Propagate /\ UNCHANGED resolved
                ELSE IF files.is_none \/ files.value = <<>>
                THEN ReturnTo(Pop, <<>>) /\ UNCHANGED <<pc, resolved>>
                ELSE LET best_candidate == SelectCandidate(files.value, target_tags)
                     IN  IF Raises(best_candidate) THEN Propagate /\ UNCHANGED resolved
                         ELSE IF best_candidate.is_none
                         THEN ReturnTo(Pop, <<>>) /\ UNCHANGED <<pc, resolved>>
                         ELSE /\ stack' = SetTop(stack, [Top EXCEPT
                                                !.at = "meta",
                                                !.results = <<best_candidate.value.url>>])
                              /\ resolved' = (Top.package_name :>
                                                [url |-> best_candidate.value.url, deps |-> <<>>])
                                             @@ resolved
                              /\ UNCHANGED <<all_urls, returned, pkg_i, pc>>
    /\ UNCHANGED <<packages, visited, wheels, todo, disk, index_map, pages, sel_files, sel_out, parse_vars, rerun_vars, tag_vars, pair_vars, earlier>>

\* lines 125-127: metadata fetch and dependency extraction
ResolveMetadata ==
    /\ pc = "wishlist"
    /\ stack # <<>>
    /\ Top.at = "meta"
    /\ LET url == Top.results[1]
       IN  \E resp \in (IF url \in DOMAIN wheels THEN {wheels[url]} ELSE WheelResponses(url)) :
             LET metadata == GetRemoteMetadata(resp)
             IN  /\ wheels' = (url :> resp) @@ wheels
                 /\ log' = Append(log, [call |-> "metadata", arg |-> url, entry |-> pkg_i])
                 /\ IF Raises(metadata) THEN Propagate /\ UNCHANGED resolved
                    ELSE IF metadata.is_none \/ metadata.value = ""
                    THEN ReturnTo(Pop, Top.results) /\ UNCHANGED <<pc, resolved>>
                    ELSE LET dependencies == ParseDeps(metadata.value, env_context)
                             names == [i \in 1..Len(dependencies) |-> dependencies[i].name]
                         IN  /\ stack' = SetTop(stack, [Top EXCEPT !.at = "deps",
                                                                   !.dependencies = names])
                             /\ resolved' = [resolved EXCEPT ![Top.package_name].deps = names]
                             /\ UNCHANGED <<all_urls, returned, pkg_i, pc>>
    /\ UNCHANGED <<packages, visited, index, todo, disk, index_map, pages, sel_files, sel_out, parse_vars, rerun_vars, tag_vars, pair_vars, earlier>>

\* lines 128-130: resolve(dep.name) for the next dependency
DepCallResolve ==
    /\ pc = "wishlist"
    /\ stack # <<>>
    /\ Top.at = "deps"
    /\ Top.dependencies # <<>>
    /\ Enter(SetTop(stack, [Top EXCEPT !.dependencies = Tail(@)]), Head(Top.dependencies))
    /\ UNCHANGED <<packages, index, wheels, resolved, log, todo, disk, index_map, pages, sel_files, sel_out, parse_vars, rerun_vars, tag_vars, pair_vars, earlier>>

\* line 132: return results
ResolveReturn ==
    /\ pc = "wishlist"
    /\ stack # <<>>
    /\ Top.at = "deps"
    /\ Top.dependencies = <<>>
    /\ ReturnTo(Pop, Top.results)
    /\ UNCHANGED <<pc, packages, visited, index, wheels, resolved, log, todo, disk,
                   index_map, pages, sel_files, sel_out, parse_vars, rerun_vars, tag_vars, pair_vars, earlier>>

\* __main__ line 246: unique_urls = list(set(all_urls)), handed to the mirror builder
Deduplicate ==
    /\ pc = "wishlist"
    /\ stack = <<>>
    /\ pkg_i > Len(packages)
    /\ urls' \in ListOfSet(SeqToSet(all_urls))
    /\ todo' = urls'
    /\ pc' = "download"
    /\ UNCHANGED <<packages, pkg_i, all_urls, returned, visited, stack, index, wheels,
                   resolved, log, disk, index_map, pages, sel_files, sel_out, parse_vars, runs, tag_vars, pair_vars, earlier>>

EmptyMap == [x \in {} |-> x]

\* the resolver was constructed as __main__ constructs it (line 223)
Constructed ==
    /\ tag_args = [plat |-> TARGET_PLATFORM, py_ver |-> TARGET_PYTHON, impl |-> IMPLEMENTATION]
    /\ inspector_tags = target_tags

\* the script uses one resolver
Alone ==
    /\ parked = {}
    /\ switches = {}
    /\ earlier = <<>>

\* the dependency extractor is not run alone
ParseIdle ==
    /\ manifest_lines = <<>>
    /\ metadata_str = ""
    /\ parse_env = env_context
    /\ parse_out = None

\* the state after RemoteWheelInspector.__init__ and reading the wishlist
Init ==
    /\ pc = "wishlist"
    /\ packages \in SeqsUpTo(WishNames, MaxWish)
    /\ pkg_i = 1
    /\ all_urls = <<>>
    /\ returned = <<>>
    /\ visited = {}
    /\ stack = <<>>
    /\ index = EmptyMap
    /\ wheels = EmptyMap
    /\ resolved = EmptyMap
    /\ log = <<>>
    /\ todo = <<>>
    /\ urls = <<>>
    /\ runs = <<>>
    /\ disk = EmptyMap
    /\ index_map = EmptyMap
    /\ pages = EmptyMap
    /\ sel_files = <<>>
    /\ sel_out = None
    /\ ParseIdle
    /\ Alone
    /\ Constructed

Next ==
    \/ MainCallResolve
    \/ ResolveFetch
    \/ ResolveMetadata
    \/ DepCallResolve
    \/ ResolveReturn
    \/ Deduplicate

Spec == Init /\ [][Next]_vars

(***************************************************************************)
(* What the run has seen of the index.                                     *)
(***************************************************************************)
IsLookup(e) == e.call = "lookup"

\* the positions of the log holding an index lookup made for wishlist entry k
LookupsOfEntry(k) == {i \in 1..Len(log) : IsLookup(log[i]) /\ log[i].entry = k}

\* the names (case-folded) of the dependencies resolve read for the name p
DependenciesOf(p) ==
    IF p \in DOMAIN resolved THEN {StrLower(n) : n \in SeqToSet(resolved[p].deps)} ELSE {}

RECURSIVE ReachableFrom(_, _)
\* the names reachable from the names of `frontier` along the dependencies read
ReachableFrom(frontier, seen) ==
    IF frontier \subseteq seen THEN seen
    ELSE ReachableFrom(UNION {DependenciesOf(p) : p \in frontier}, seen \cup frontier)

Reachable(name) == ReachableFrom({StrLower(name)}, {})

(***************************************************************************)
(* C1.  Within one resolver instance's run the index lookup is executed at *)
(* most once for each case-folded package name, however many dependents or *)
(* wishlist entries name it.                                               *)
(***************************************************************************)
C1_LookupAtMostOnce ==
    \A i, j \in 1..Len(log) :
        (IsLookup(log[i]) /\ IsLookup(log[j]) /\ log[i].arg = log[j].arg) => i = j

\* a finished run over a diamond: a names b and c, both name d, d was looked up
C1_Witness ==
    /\ pc = "download"
    /\ {"b", "c"} \subseteq DependenciesOf("a")
    /\ "d" \in DependenciesOf("b")
    /\ "d" \in DependenciesOf("c")
    /\ \E i \in 1..Len(log) : IsLookup(log[i]) /\ log[i].arg = "d"

(***************************************************************************)
(* C2.  Every top-level resolve call terminates, cycles included, and the  *)
(* index lookups made for it number at most the distinct package names     *)
(* reachable from its argument.  Termination is stated by a variant: every *)
(* step of the walk raises Progress, which the names of the index bound,   *)
(* the nesting of resolve calls never exceeds the names reachable from the *)
(* argument, and no call ends in an exception.                             *)
(***************************************************************************)
LookupsWithinReach ==
    \A k \in 1..Len(packages) :
        Cardinality(LookupsOfEntry(k)) <= Cardinality(Reachable(packages[k]))

DepthWithinReach ==
    stack # <<>> => Len(stack) <= Cardinality(Reachable(packages[pkg_i]))

RECURSIVE PendingWork(_)
\* the dependencies still to resolve and the calls still to return
PendingWork(stk) ==
    IF stk = <<>> THEN 0 ELSE 1 + Len(stk[Len(stk)].dependencies) + PendingWork(SubSeq(stk, 1, Len(stk) - 1))

\* more requirements than any manifest of the index declares
ManifestWeight == 8

Progress ==
    ManifestWeight * (Cardinality(visited) + Len(log) + pkg_i + (IF pc = "wishlist" THEN 0 ELSE 1))
        - PendingWork(stack)

C2_TerminatesWithinReach ==
    /\ [](LookupsWithinReach /\ DepthWithinReach /\ pc # "crashed")
    /\ [](Progress <= ManifestWeight * (3 * Cardinality(visited) + Len(packages) + 2))
    /\ [][Progress' > Progress]_vars

\* a finished run over a cycle: a names b, b names A, each looked up
C2_Witness ==
    /\ pc = "download"
    /\ "b" \in DependenciesOf("a")
    /\ "a" \in DependenciesOf("b")
    /\ Cardinality(LookupsOfEntry(1)) >= 2

(***************************************************************************)
(* C4.  No failure inside resolve (package not found, transport failure,   *)
(* malformed listing filename, malformed requirement, missing or           *)
(* unreadable metadata, no compatible artifact) propagates out of resolve: *)
(* the failing call returns the empty list and the wishlist loop goes on   *)
(* to every later entry.                                                   *)
(***************************************************************************)
\* the lookup of p gave no listings or no candidate
LookupFailed(p) == p \in DOMAIN index /\ p \notin DOMAIN resolved

C4_NoFailurePropagates ==
    /\ pc # "crashed"
    /\ pc = "download" => Len(returned) = Len(packages)
    /\ \A k \in 1..Len(returned) :
          (LookupsOfEntry(k) # {} /\ LookupFailed(StrLower(packages[k]))) => returned[k] = <<>>

\* the first entry's lookup met a transport failure, the second entry was resolved
C4_Witness ==
    /\ pc = "download"
    /\ Len(packages) = 2
    /\ index[StrLower(packages[1])] = TransportError
    /\ returned[1] = <<>>
    /\ returned[2] # <<>>

(***************************************************************************)
(* Candidate selection alone: resolve's loop over any listings.            *)
(***************************************************************************)
\* the release strings 0.0.0 .. MaxVersion.0.0, and 1.0 (the same version as 1.0.0)
SelVersions == {Char(Digits, v + 1) \o ".0.0" : v \in 0..MaxVersion} \cup {"1.0"}

\* two tag sets the target accepts and one it does not
SelTags == {"py3-none-any", "cp311-abi3-manylinux_2_17_x86_64", "cp311-cp311-win_amd64"}

SelFilenames ==
    {"demo-" \o v \o "-" \o t \o ".whl" : v \in SelVersions, t \in SelTags}
        \cup {"demo-1.0.0.tar.gz", "demo-9.whl"}

SelInit ==
    /\ pc = "select"
    /\ sel_files \in SeqsUpTo({Listing(f) : f \in SelFilenames}, MaxFiles)
    /\ sel_out = None
    /\ packages = <<>>
    /\ pkg_i = 1
    /\ all_urls = <<>>
    /\ returned = <<>>
    /\ visited = {}
    /\ stack = <<>>
    /\ index = EmptyMap
    /\ wheels = EmptyMap
    /\ resolved = EmptyMap
    /\ log = <<>>
    /\ todo = <<>>
    /\ urls = <<>>
    /\ runs = <<>>
    /\ disk = EmptyMap
    /\ index_map = EmptyMap
    /\ pages = EmptyMap
    /\ ParseIdle
    /\ Alone
    /\ Constructed

\* lines 101-117 on sel_files
Select ==
    /\ pc = "select"
    /\ sel_out' = SelectCandidate(sel_files, target_tags)
    /\ pc' = "selected"
    /\ UNCHANGED <<packages, pkg_i, all_urls, returned, visited, stack, index, wheels,
                   resolved, log, todo, disk, index_map, pages, sel_files, parse_vars, rerun_vars, tag_vars, pair_vars, earlier>>

SelNext == Select

SelSpec == SelInit /\ [][SelNext]_vars

\* the positions of the listings that are wheels for the target
MatchingIn(files) ==
    {i \in 1..Len(files) :
        LET parsed == ParseWheelFilename(files[i].filename)
        IN  parsed.ok /\ Matched(parsed.tags, target_tags)}

VersionAt(files, i) == ParseWheelFilename(files[i].filename).version

\* the matching positions whose version no matching listing exceeds
GreatestIn(files) ==
    {i \in MatchingIn(files) :
        \A j \in MatchingIn(files) : ~VersionGreater(VersionAt(files, j), VersionAt(files, i))}

CandidateAt(files, i) == Some([url |-> files[i].url, filename |-> files[i].filename])

\* the orderings of the listings
Orderings(files) ==
    {[i \in 1..Len(files) |-> files[f[i]]] : f \in ListOfSet(1..Len(files))}

Min(S) == CHOOSE x \in S : \A y \in S : x <= y

(***************************************************************************)
(* C3.  The selection picks a listing whose tags intersect the target tags *)
(* and whose version is at least that of every other matching listing, and *)
(* picks none only when no listing matches.                                *)
(***************************************************************************)
C3_PicksGreatestMatching ==
    pc = "selected" =>
        /\ sel_out.is_none <=> MatchingIn(sel_files) = {}
        /\ ~sel_out.is_none =>
              \E i \in GreatestIn(sel_files) : sel_out = CandidateAt(sel_files, i)

(***************************************************************************)
(* C7.  Any two orderings of the same listings in which no two matching    *)
(* listings share the greatest version give the same artifact; when        *)
(* several matching listings share the greatest version, the first of them *)
(* in the listing order is returned.                                       *)
(***************************************************************************)
C7_OrderDecidesOnlyTies ==
    pc = "selected" =>
        IF Cardinality(GreatestIn(sel_files)) <= 1
        THEN \A q \in Orderings(sel_files) : SelectCandidate(q, target_tags) = sel_out
        ELSE sel_out = CandidateAt(sel_files, Min(GreatestIn(sel_files)))

(***************************************************************************)
(* What the index holds for the names the run looked up.                   *)
(***************************************************************************)
\* the listings _fetch_simple_links gave for the looked-up name p
FilesOf(p) ==
    LET files == FetchSimpleLinks(index[p])
    IN  IF Raises(files) \/ files.is_none THEN <<>> ELSE files.value

\* the index lists a wheel of p for the target
HasCompatible(p) == p \in DOMAIN index /\ MatchingIn(FilesOf(p)) # {}

\* the url of the SelectedArtifact of p: the matching listing of greatest version,
\* the first of them in the listing order
ArtifactUrl(p) == FilesOf(p)[Min(GreatestIn(FilesOf(p)))].url

\* the urls the closure of the wishlist entry k holds
ClosureUrls(k) == {ArtifactUrl(q) : q \in {x \in Reachable(packages[k]) : HasCompatible(x)}}

NoDuplicates(q) == \A i, j \in 1..Len(q) : q[i] = q[j] => i = j

(***************************************************************************)
(* C6.  On a fresh resolver instance resolve(p) returns exactly the        *)
(* selected-artifact urls of the closure of p: p and, recursively, every   *)
(* package named by an applicable dependency of a member whose artifact    *)
(* was selected and whose metadata was read; each member with a compatible *)
(* artifact contributes its url exactly once, and nothing else is returned.*)
(***************************************************************************)
C6_ReturnsClosure ==
    Len(returned) >= 1 =>
        /\ SeqToSet(returned[1]) = ClosureUrls(1)
        /\ NoDuplicates(returned[1])

(***************************************************************************)
(* C8.  A wishlist entry naming a package already reached through an       *)
(* earlier entry gets the empty list without any lookup, and the union of  *)
(* the lists returned for all entries still holds the selected url of      *)
(* every package with a compatible artifact reachable from any entry.      *)
(***************************************************************************)
ReturnedUrls == UNION {SeqToSet(returned[k]) : k \in 1..Len(returned)}

C8_UnionCoversReachable ==
    /\ \A k \in 1..Len(returned) :
          (\E j \in 1..(k - 1) : StrLower(packages[k]) \in Reachable(packages[j]))
              => returned[k] = <<>> /\ LookupsOfEntry(k) = {}
    /\ pc = "download" =>
          \A k \in 1..Len(packages) : ClosureUrls(k) \subseteq ReturnedUrls

(***************************************************************************)
(* C9.  The index lookup reports an unknown package (404) as a result      *)
(* distinguishable from a transport failure: the outcome of                *)
(* _fetch_simple_links for a 404 response differs from its outcome when    *)
(* the request raises.                                                     *)
(***************************************************************************)
C9_NotFoundDistinctFromFailure ==
    \A p, q \in DOMAIN index :
        (index[p].exc /\ ~index[q].exc /\ index[q].status_code = 404)
            => FetchSimpleLinks(index[p]) # FetchSimpleLinks(index[q])

(***************************************************************************)
(* C10.  A non-2xx response other than 404 is a lookup failure that yields *)
(* no listings, whatever its body holds: no artifact is selected and no    *)
(* url is returned for that package.                                       *)
(***************************************************************************)
IsErrorStatus(resp) ==
    ~resp.exc /\ resp.status_code \notin 200..299 /\ resp.status_code # 404

C10_ErrorStatusYieldsNothing ==
    \A p \in DOMAIN index :
        IsErrorStatus(index[p]) =>
            /\ FilesOf(p) = <<>>
            /\ p \notin DOMAIN resolved
            /\ \A k \in 1..Len(returned) : \A u \in SeqToSet(returned[k]) :
                  ParseWheelFilename(Basename(u)).name # p

(***************************************************************************)
(* The mirror builder, download_and_structure(urls, root_dir).  disk maps  *)
(* a path to "dir", "whl" (a whole artifact) or "partial" (an artifact     *)
(* whose download broke off); pages maps the path of a listing page to its *)
(* links.                                                                  *)
(***************************************************************************)
MIRROR_ROOT == "./offline_mirror"

\* os.path.join
PathJoin(a, b) == a \o "/" \o b

\* the characters of a normalized name, in code-point order
CodePointOrder == "-.0123456789_abcdefghijklmnopqrstuvwxyz"
Rank == [c \in {Char(CodePointOrder, i) : i \in 1..Len(CodePointOrder)} |->
            CHOOSE i \in 1..Len(CodePointOrder) : Char(CodePointOrder, i) = c]

RECURSIVE StrLess(_, _)
\* a < b for Python strings
StrLess(a, b) ==
    IF Len(b) = 0 THEN FALSE
    ELSE IF Len(a) = 0 THEN TRUE
    ELSE IF Head(a) = Head(b) THEN StrLess(Tail(a), Tail(b))
    ELSE Rank[Head(a)] < Rank[Head(b)]

RECURSIVE Sorted(_)
\* sorted(S) for a set of strings
Sorted(S) ==
    IF S = {} THEN <<>>
    ELSE LET least == CHOOSE x \in S : \A y \in S \ {x} : StrLess(x, y)
         IN  <<least>> \o Sorted(S \ {least})

\* what the file host may answer to the streamed GET of an artifact
DownloadOk == [exc |-> FALSE, status_code |-> 200, complete |-> TRUE]
DownloadBroken == [exc |-> FALSE, status_code |-> 200, complete |-> FALSE]
DownloadUnavailable == [exc |-> FALSE, status_code |-> 503, complete |-> FALSE]
DownloadResponses == {DownloadOk, DownloadBroken, DownloadUnavailable, TransportError}

\* os.path.exists without its answer: every path is taken for absent
ExistsNever(path, tree) == FALSE

\* os.path.exists
Exists(path, tree) == path \in DOMAIN tree

\* lines 145-146
MakeRoot ==
    /\ pc = "mirror"
    /\ disk' = IF Exists(MIRROR_ROOT, disk) THEN disk ELSE (MIRROR_ROOT :> "dir") @@ disk
    /\ pc' = "download"
    /\ UNCHANGED <<packages, pkg_i, all_urls, returned, visited, stack, index, wheels,
                   resolved, log, todo, index_map, pages, sel_files, sel_out, parse_vars, rerun_vars, tag_vars, pair_vars, earlier>>

\* lines 181-184 without the append: a package keeps its last filename only
IndexedLast(map, norm_name, filename) == (norm_name :> <<filename>>) @@ map

\* lines 181-184
Indexed(map, norm_name, filename) ==
    IF norm_name \in DOMAIN map
    THEN [map EXCEPT ![norm_name] = Append(@, filename)]
    ELSE (norm_name :> <<filename>>) @@ map

\* lines 154-184: one iteration of `for url in urls`
DownloadOne ==
    /\ pc = "download"
    /\ todo # <<>>
    /\ LET url == Head(todo)
             filename == Basename(url)
             parsed == ParseWheelFilename(filename)
         IN  IF ~parsed.ok
             THEN /\ todo' = Tail(todo)
                  /\ UNCHANGED <<pc, disk, index_map, log>>
             ELSE LET norm_name == NormalizeName(parsed.name)
                      package_dir == PathJoin(MIRROR_ROOT, norm_name)
                      filepath == PathJoin(package_dir, filename)
                      with_dir == IF Exists(package_dir, disk) THEN disk
                                  ELSE (package_dir :> "dir") @@ disk
                  IN  IF Exists(filepath, disk)
                      THEN /\ disk' = with_dir
                           /\ index_map' = Indexed(index_map, norm_name, filename)
                           /\ todo' = Tail(todo)
                           /\ UNCHANGED <<pc, log>>
                      ELSE \E resp \in DownloadResponses :
                             /\ log' = Append(log, [call |-> "download", arg |-> url, entry |-> 0])
                             /\ IF resp.exc \/ resp.status_code \in 400..599
                                THEN /\ pc' = "crashed"
                                     /\ disk' = with_dir
                                     /\ UNCHANGED <<todo, index_map>>
                                ELSE IF ~resp.complete
                                THEN /\ pc' = "crashed"
                                     /\ disk' = (filepath :> "partial") @@ with_dir
                                     /\ UNCHANGED <<todo, index_map>>
                                ELSE /\ disk' = (filepath :> "whl") @@ with_dir
                                     /\ index_map' = Indexed(index_map, norm_name, filename)
                                     /\ todo' = Tail(todo)
                                     /\ UNCHANGED pc
    /\ UNCHANGED <<packages, pkg_i, all_urls, returned, visited, stack, index, wheels,
                   resolved, pages, sel_files, sel_out, parse_vars, rerun_vars, tag_vars, pair_vars, earlier>>

\* lines 186-213: the page of every package directory and the root page
GenerateIndices ==
    /\ pc = "download"
    /\ todo = <<>>
    /\ pages' = [path \in {PathJoin(PathJoin(MIRROR_ROOT, n), "index.html") : n \in DOMAIN index_map}
                          \cup {PathJoin(MIRROR_ROOT, "index.html")} |->
                    IF path = PathJoin(MIRROR_ROOT, "index.html")
                    THEN [n \in 1..Cardinality(DOMAIN index_map) |->
                              Sorted(DOMAIN index_map)[n] \o "/"]
                    ELSE index_map[CHOOSE n \in DOMAIN index_map :
                                       path = PathJoin(PathJoin(MIRROR_ROOT, n), "index.html")]]
                @@ pages
    /\ pc' = "done"
    /\ UNCHANGED <<packages, pkg_i, all_urls, returned, visited, stack, index, wheels,
                   resolved, log, todo, disk, index_map, sel_files, sel_out, parse_vars, rerun_vars, tag_vars, pair_vars, earlier>>

\* the urls the mirror builder may be given: two artifacts of one package under two
\* spellings of its name, another package, and a filename that is no wheel filename
MirrorUrls ==
    { FILES_URL \o "My_Pkg-1.0.0-py3-none-any.whl",
      FILES_URL \o "my.pkg-2.0.0-py3-none-any.whl",
      FILES_URL \o "b-1.0.0-py3-none-any.whl",
      FILES_URL \o "notes.txt" }

\* a mirror left by an earlier run that stored the artifact of url
MirrorWith(url) ==
    LET filename == Basename(url)
        package_dir == PathJoin(MIRROR_ROOT, NormalizeName(ParseWheelFilename(filename).name))
    IN  (MIRROR_ROOT :> "dir") @@ (package_dir :> "dir") @@ (PathJoin(package_dir, filename) :> "whl")

MirrorInit ==
    /\ pc = "mirror"
    /\ urls \in UNION {ListOfSet(S) : S \in {T \in SUBSET MirrorUrls : Cardinality(T) <= MaxUrls}}
    /\ todo = urls
    /\ runs = <<>>
    /\ disk \in {EmptyMap} \cup {MirrorWith(u) : u \in {x \in MirrorUrls : ParseWheelFilename(Basename(x)).ok}}
    /\ index_map = EmptyMap
    /\ pages = EmptyMap
    /\ packages = <<>>
    /\ pkg_i = 1
    /\ all_urls = <<>>
    /\ returned = <<>>
    /\ visited = {}
    /\ stack = <<>>
    /\ index = EmptyMap
    /\ wheels = EmptyMap
    /\ resolved = EmptyMap
    /\ log = <<>>
    /\ sel_files = <<>>
    /\ sel_out = None
    /\ ParseIdle
    /\ Alone
    /\ Constructed

MaxRuns == 2        \* runs of the mirror builder on the same urls

\* the number of artifact downloads the log holds
Downloads == Cardinality({i \in 1..Len(log) : log[i].call = "download"})

\* line 249 once more: download_and_structure is called again with the same urls
\* on the tree the finished run left
RunAgain ==
    /\ pc = "done"
    /\ Len(runs) + 1 < MaxRuns
    /\ runs' = Append(runs, [disk |-> disk, pages |-> pages, downloads |-> Downloads])
    /\ todo' = urls
    /\ index_map' = EmptyMap
    /\ pc' = "mirror"
    /\ UNCHANGED <<packages, pkg_i, all_urls, returned, visited, stack, index, wheels,
                   resolved, log, disk, pages, sel_files, sel_out, parse_vars, urls, tag_vars, pair_vars, earlier>>

MirrorNext ==
    \/ MakeRoot
    \/ DownloadOne
    \/ GenerateIndices
    \/ RunAgain

MirrorSpec == MirrorInit /\ [][MirrorNext]_vars

(***************************************************************************)
(* C5.  A transport failure (network error, timeout, non-2xx response) on  *)
(* a remote call touches only that package or artifact: it never aborts    *)
(* the processing of the others, and the run still completes, the          *)
(* remaining artifacts downloaded and the listing pages generated.         *)
(***************************************************************************)
C5_TransportFailureIsLocal ==
    /\ pc # "crashed"
    /\ pc = "done" => PathJoin(MIRROR_ROOT, "index.html") \in DOMAIN pages

(***************************************************************************)
(* C11.  When the metadata fetch for the selected artifact fails (network  *)
(* error, malformed archive, or no member ending in .dist-info/METADATA),  *)
(* resolve still returns that artifact's URL, treats the package as having *)
(* no dependencies, and performs no further lookup for that branch: the    *)
(* step that meets the failure is the return of the call, with the URL     *)
(* alone as its value and the metadata fetch as its only remote call.      *)
(***************************************************************************)
\* the file host's answer holds no readable manifest
MetadataUnavailable(resp) ==
    \/ resp.exc
    \/ resp.zip.is_none
    \/ \A i \in 1..Len(resp.zip.value) :
          ~EndsWith(resp.zip.value[i].name, ".dist-info/METADATA")

\* the resolve call on top of the stack returns `value` in this step
ReturnsNow(value) ==
    /\ pc' = pc
    /\ IF Len(stack) = 1
       THEN /\ stack' = <<>>
            /\ returned' = Append(returned, value)
       ELSE /\ Len(stack') = Len(stack) - 1
            /\ stack'[Len(stack')].results = stack[Len(stack) - 1].results \o value
            /\ stack'[Len(stack')].dependencies = stack[Len(stack) - 1].dependencies

\* the step in hand is a metadata fetch that failed
MetadataFetchFails ==
    /\ stack # <<>>
    /\ Top.at = "meta"
    /\ Len(log') = Len(log) + 1
    /\ MetadataUnavailable(wheels'[Top.results[1]])

C11_MetadataFailureKeepsUrl ==
    /\ [][MetadataFetchFails =>
            /\ ReturnsNow(<<resolved[Top.package_name].url>>)
            /\ log'[Len(log')].call = "metadata"
            /\ visited' = visited]_vars
    /\ [](\A p \in DOMAIN resolved :
            (resolved[p].url \in DOMAIN wheels /\ MetadataUnavailable(wheels[resolved[p].url]))
                => resolved[p].deps = <<>>)

\* each kind of failure met by the first entry, whose call returned the URL alone
C11_Witness ==
    /\ pc = "download"
    /\ Len(packages) = 2
    /\ packages[1] = "a"
    /\ "a" \in DOMAIN resolved
    /\ returned[1] = <<resolved["a"].url>>
    /\ wheels[resolved["a"].url] = WheelNotZip
    /\ "d" \in DOMAIN resolved
    /\ wheels[resolved["d"].url] \in {TransportError, WheelNoManifest("d")}
    /\ Len(log) = 4

(***************************************************************************)
(* The dependency extractor alone: _parse_deps on any manifest of the pool *)
(* under any environment context.                                          *)
(***************************************************************************)
MaxLines == 4       \* lines of a manifest

\* a plain requirement, one with a marker on the platform, one with a specifier and
\* a marker on the interpreter, a malformed one, another header, and the keyword in
\* lowercase
ManifestLines ==
    { "Requires-Dist: foo",
      "Requires-Dist: foo; sys_platform == \"win32\"",
      "Requires-Dist:bar >=1.0 ; python_version != \"3.11\"",
      "Requires-Dist: bar >< 1",
      "Name: demo",
      "requires-dist: baz" }

RECURSIVE Join(_, _)
\* sep.join(lines)
Join(lines, sep) ==
    IF lines = <<>> THEN ""
    ELSE IF Len(lines) = 1 THEN lines[1]
    ELSE lines[1] \o sep \o Join(Tail(lines), sep)

\* the contexts of a Linux, a Windows and a macOS target
EnvContexts ==
    { EnvContext(TARGET_PLATFORM, TARGET_PYTHON, IMPLEMENTATION),
      EnvContext("win_amd64", "311", "cp"),
      EnvContext("macosx_11_0_arm64", "39", "pp") }

ParseInit ==
    /\ pc = "parse"
    /\ manifest_lines \in SeqsUpTo(ManifestLines, MaxLines)
    /\ metadata_str \in {Join(manifest_lines, "\n"), Join(manifest_lines, "\r\n") \o "\r\n"}
    /\ parse_env \in EnvContexts
    /\ parse_out = None
    /\ Constructed
    /\ Alone
    /\ packages = <<>>
    /\ pkg_i = 1
    /\ all_urls = <<>>
    /\ returned = <<>>
    /\ visited = {}
    /\ stack = <<>>
    /\ index = EmptyMap
    /\ wheels = EmptyMap
    /\ resolved = EmptyMap
    /\ log = <<>>
    /\ todo = <<>>
    /\ urls = <<>>
    /\ runs = <<>>
    /\ disk = EmptyMap
    /\ index_map = EmptyMap
    /\ pages = EmptyMap
    /\ sel_files = <<>>
    /\ sel_out = None

\* line 127 on metadata_str: dependencies = self._parse_deps(metadata)
CallParseDeps ==
    /\ pc = "parse"
    /\ parse_out' = Some(ParseDeps(metadata_str, parse_env))
    /\ pc' = "parsed"
    /\ UNCHANGED <<packages, pkg_i, all_urls, returned, visited, stack, index, wheels,
                   resolved, log, todo, disk, index_map, pages, sel_files, sel_out,
                   manifest_lines, metadata_str, parse_env, rerun_vars, tag_vars, pair_vars, earlier>>

ParseNext == CallParseDeps

ParseSpec == ParseInit /\ [][ParseNext]_vars

\* the requirement a manifest line declares: what follows the keyword
Declared(line, env) == ParseRequirement(Strip(SubSeq(line, Len("Requires-Dist:") + 1, Len(line))), env)

\* the line declares a requirement that parses and applies under env
Applies(line, env) ==
    /\ StartsWith(line, "Requires-Dist:")
    /\ Declared(line, env).ok
    /\ \/ Declared(line, env).marker.is_none
       \/ MarkerEvaluate(Declared(line, env).marker.value, env)

RECURSIVE Applicable(_, _)
\* the lines that apply, in manifest order, repetitions kept
Applicable(lines, env) ==
    IF lines = <<>> THEN <<>>
    ELSE (IF Applies(Head(lines), env) THEN <<Head(lines)>> ELSE <<>>)
             \o Applicable(Tail(lines), env)

(***************************************************************************)
(* C12.  For every manifest and environment context _parse_deps returns,   *)
(* in manifest order and without removing duplicates, exactly the          *)
(* Requires-Dist requirements that parse and that have no marker or a      *)
(* marker true in the context; a requirement with a false marker and an    *)
(* unparseable line are dropped without affecting the other lines.         *)
(***************************************************************************)
C12_ParseDepsKeepsApplicable ==
    ~parse_out.is_none =>
        LET kept == Applicable(manifest_lines, parse_env)
        IN  /\ Len(parse_out.value) = Len(kept)
            /\ \A i \in 1..Len(kept) : parse_out.value[i] = Declared(kept[i], parse_env)

\* under the Linux context: a false marker and a malformed line dropped, the same
\* requirement kept twice
C12_Witness ==
    /\ ~parse_out.is_none
    /\ parse_env.sys_platform = "linux"
    /\ manifest_lines = << "Requires-Dist: foo; sys_platform == \"win32\"",
                           "Requires-Dist: foo",
                           "Requires-Dist: bar >< 1",
                           "Requires-Dist: foo" >>
    /\ Len(parse_out.value) = 2
    /\ parse_out.value[1].name = "foo"
    /\ parse_out.value[2].name = "foo"

(***************************************************************************)
(* C13.  download_and_structure is idempotent: an artifact whose file      *)
(* already exists at {root}/{normalized-name}/{filename} is not downloaded *)
(* again, so a second run with the same urls on the tree the first run     *)
(* left performs no download and leaves the artifacts and the listing      *)
(* pages as they were.                                                     *)
(***************************************************************************)
\* {root}/{normalized-name}/{filename} of a url whose filename is a wheel filename
FilePathOf(url) ==
    PathJoin(PathJoin(MIRROR_ROOT, NormalizeName(ParseWheelFilename(Basename(url)).name)),
             Basename(url))

\* the step in hand downloads an artifact
DownloadsNow == Len(log') = Len(log) + 1 /\ log'[Len(log')].call = "download"

C13_SecondRunDownloadsNothing ==
    /\ [][DownloadsNow => FilePathOf(log'[Len(log')].arg) \notin DOMAIN disk]_vars
    /\ [](runs # <<>> =>
            /\ pc # "crashed"
            /\ Downloads = runs[Len(runs)].downloads
            /\ pc = "done" => /\ disk = runs[Len(runs)].disk
                              /\ pages = runs[Len(runs)].pages)

\* a second run has ended on a tree of two packages whose artifacts the first run
\* downloaded
C13_Witness ==
    /\ pc = "done"
    /\ runs # <<>>
    /\ runs[1].downloads >= 2
    /\ Cardinality(DOMAIN pages) = 3

(***************************************************************************)
(* C14.  For any urls handed to download_and_structure, the index.html of  *)
(* each package directory holds exactly one link per url whose filename    *)
(* parses to that normalized package name, and the root index.html holds   *)
(* exactly one link per distinct normalized package name: two urls of one  *)
(* package give two links on its page and one link on the root page.       *)
(***************************************************************************)
\* the positions of urls whose filename is a wheel filename
Compliant == {i \in 1..Len(urls) : ParseWheelFilename(Basename(urls[i])).ok}

\* the normalized package name the url at position i belongs to
PackageOf(i) == NormalizeName(ParseWheelFilename(Basename(urls[i])).name)

PagePath(n) == PathJoin(PathJoin(MIRROR_ROOT, n), "index.html")

RootPath == PathJoin(MIRROR_ROOT, "index.html")

\* the number of links of `page` to `href`
LinksTo(page, href) == Cardinality({k \in 1..Len(page) : page[k] = href})

C14_OneLinkPerUrlAndPackage ==
    pc = "done" =>
        /\ \A i \in Compliant :
              /\ PagePath(PackageOf(i)) \in DOMAIN pages
              /\ LinksTo(pages[PagePath(PackageOf(i))], Basename(urls[i])) = 1
              /\ Len(pages[PagePath(PackageOf(i))])
                    = Cardinality({j \in Compliant : PackageOf(j) = PackageOf(i)})
              /\ LinksTo(pages[RootPath], PackageOf(i) \o "/") = 1
        /\ Len(pages[RootPath]) = Cardinality({PackageOf(i) : i \in Compliant})

\* two urls of my-pkg under two spellings and a file that is no wheel: two links on
\* the page of my-pkg, one on the root page
C14_Witness ==
    /\ pc = "done"
    /\ Len(urls) = 3
    /\ Cardinality(Compliant) = 2
    /\ \A i \in Compliant : PackageOf(i) = "my-pkg"
    /\ Len(pages[PagePath("my-pkg")]) = 2
    /\ pages[RootPath] = <<"my-pkg/">>

(***************************************************************************)
(* The construction of the resolver alone: RemoteWheelInspector(plat,      *)
(* py_ver, impl) for any arguments of the pools, then the use resolve      *)
(* makes of target_tags on a listing.                                      *)
(***************************************************************************)
TagPlatforms == {"manylinux_2_17_x86_64", "win_amd64", "macosx_11_0_arm64", "Linux_AArch64", "any"}
TagVersions == {"311", "39", "312", "3"}
TagImplementations == {"cp", "pp", "py"}

\* wheels of the interpreter's own tags and of the generic tags
TagFilenames ==
    { "demo-1.0.0-cp311-cp311-manylinux_2_17_x86_64.whl",
      "demo-1.0.0-pp39-none-win_amd64.whl",
      "demo-1.0.0-py2.py3-none-any.whl" }

TagInit ==
    /\ pc = "construct"
    /\ tag_args \in [plat : TagPlatforms, py_ver : TagVersions, impl : TagImplementations]
    /\ inspector_tags = <<>>
    /\ packages = <<>>
    /\ pkg_i = 1
    /\ all_urls = <<>>
    /\ returned = <<>>
    /\ visited = {}
    /\ stack = <<>>
    /\ index = EmptyMap
    /\ wheels = EmptyMap
    /\ resolved = EmptyMap
    /\ log = <<>>
    /\ todo = <<>>
    /\ urls = <<>>
    /\ runs = <<>>
    /\ disk = EmptyMap
    /\ index_map = EmptyMap
    /\ pages = EmptyMap
    /\ sel_files = <<>>
    /\ sel_out = None
    /\ ParseIdle
    /\ Alone

\* line 22: self.target_tags = self._generate_tags(platform_tag, python_version, implementation)
Construct ==
    /\ pc = "construct"
    /\ inspector_tags' = GenerateTags(tag_args.plat, tag_args.py_ver, tag_args.impl)
    /\ pc' = "constructed"
    /\ UNCHANGED <<packages, pkg_i, all_urls, returned, visited, stack, index, wheels,
                   resolved, log, todo, disk, index_map, pages, sel_files, sel_out,
                   parse_vars, rerun_vars, tag_args, pair_vars, earlier>>

\* lines 101-117 and 120: the reads of self.target_tags
SelectWithTags ==
    /\ pc = "constructed"
    /\ \E f \in TagFilenames :
         /\ sel_files' = <<Listing(f)>>
         /\ sel_out' = SelectCandidate(sel_files', inspector_tags)
    /\ pc' = "selected"
    /\ UNCHANGED <<packages, pkg_i, all_urls, returned, visited, stack, index, wheels,
                   resolved, log, todo, disk, index_map, pages, parse_vars, rerun_vars, tag_vars, pair_vars, earlier>>

TagNext ==
    \/ Construct
    \/ SelectWithTags

TagSpec == TagInit /\ [][TagNext]_vars

(***************************************************************************)
(* C15.  For all platform, interpreter-version and implementation inputs   *)
(* the target tags are exactly five, in this order: (impl+ver, impl+ver,   *)
(* platform), (impl+ver, abi3, platform), (impl+ver, none, platform), the  *)
(* generic Python-3 tag with platform any, the generic Python-2-or-3 tag   *)
(* with platform any; and they are never modified after the resolver is    *)
(* constructed.  Tags compare in lowercase, as packaging.tags.Tag holds     *)
(* them.                                                                   *)
(***************************************************************************)
\* impl+ver and the platform of the arguments, as a tag holds them
OwnInterpreter == StrLower(tag_args.impl \o tag_args.py_ver)
OwnPlatform == StrLower(tag_args.plat)

C15_FiveTagsInOrder ==
    /\ [](pc # "construct" =>
            /\ Len(inspector_tags) = 5
            /\ \A k \in 1..3 : /\ inspector_tags[k][1] = OwnInterpreter
                               /\ inspector_tags[k][3] = OwnPlatform
            /\ inspector_tags[1][2] = OwnInterpreter
            /\ inspector_tags[2][2] = "abi3"
            /\ inspector_tags[3][2] = "none"
            /\ inspector_tags[4] = <<"py3", "none", "any">>
            /\ inspector_tags[5] = <<"py2.py3", "none", "any">>)
    /\ [][pc # "construct" => inspector_tags' = inspector_tags]_vars

\* a PyPy 3.9 resolver for Windows was constructed and its tags chose a listing
C15_Witness ==
    /\ pc = "selected"
    /\ tag_args = [plat |-> "win_amd64", py_ver |-> "39", impl |-> "pp"]
    /\ inspector_tags[3] = <<"pp39", "none", "win_amd64">>
    /\ ~sel_out.is_none

(***************************************************************************)
(* The run of __main__ on a wishlist that spells one project several ways. *)
(***************************************************************************)
SpelledNames == {"my_pkg", "My-Pkg"}

SpelledInit ==
    /\ pc = "wishlist"
    /\ packages \in SeqsUpTo(SpelledNames, MaxWish)
    /\ pkg_i = 1
    /\ all_urls = <<>>
    /\ returned = <<>>
    /\ visited = {}
    /\ stack = <<>>
    /\ index = EmptyMap
    /\ wheels = EmptyMap
    /\ resolved = EmptyMap
    /\ log = <<>>
    /\ todo = <<>>
    /\ urls = <<>>
    /\ runs = <<>>
    /\ disk = EmptyMap
    /\ index_map = EmptyMap
    /\ pages = EmptyMap
    /\ sel_files = <<>>
    /\ sel_out = None
    /\ ParseIdle
    /\ Alone
    /\ Constructed

SpelledSpec == SpelledInit /\ [][Next]_vars

(***************************************************************************)
(* C16.  Two package names with the same normalized name (lowercase, runs  *)
(* of "-", "_" and "." unified) are the same package for the visited set:  *)
(* resolving one after the other on the same instance performs no second   *)
(* index lookup and adds no second URL.                                    *)
(***************************************************************************)
C16_SpellingsAreOnePackage ==
    /\ \A i, j \in 1..Len(log) :
          (/\ IsLookup(log[i])
           /\ IsLookup(log[j])
           /\ NormalizeName(log[i].arg) = NormalizeName(log[j].arg)) => i = j
    /\ NoDuplicates(all_urls)

(***************************************************************************)
(* The depth-first walk over what the run saw of the index: the names of   *)
(* `pending` are resolved in order, the dependencies of a name before the  *)
(* names that follow it.  walk holds the names visited, the remote calls   *)
(* and the URLs so far.                                                    *)
(***************************************************************************)
RECURSIVE Walk(_, _)
Walk(pending, walk) ==
    IF pending = <<>> THEN walk
    ELSE LET n == StrLower(Head(pending))
         IN  IF n \in walk.seen THEN Walk(Tail(pending), walk)
             ELSE IF n \notin DOMAIN resolved
             THEN Walk(Tail(pending),
                       [walk EXCEPT !.seen = @ \cup {n},
                                    !.calls = Append(@, <<"lookup", n>>)])
             ELSE Walk(resolved[n].deps \o Tail(pending),
                       [seen |-> walk.seen \cup {n},
                        calls |-> walk.calls \o << <<"lookup", n>>, <<"metadata", resolved[n].url>> >>,
                        urls |-> Append(walk.urls, resolved[n].url)])

\* the remote calls of the log, each as <<call, argument>>
Calls == [i \in 1..Len(log) |-> <<log[i].call, log[i].arg>>]

(***************************************************************************)
(* C17.  Resolution is depth-first and strictly sequential: for a package  *)
(* whose applicable dependencies are d1, d2 in manifest order, every index *)
(* lookup and metadata fetch of d1's whole sub-walk completes before the   *)
(* index lookup of d2 begins, a package's own URL precedes the URLs of its *)
(* dependencies in the returned list, and at no time are two remote calls  *)
(* in progress: the calls and the URLs of a finished run are those of the  *)
(* depth-first walk, in its order, and a step makes one remote call at     *)
(* most, from the innermost resolve call.                                  *)
(***************************************************************************)
C17_DepthFirstSequential ==
    /\ [](pc = "download" =>
            LET walk == Walk(packages, [seen |-> {}, calls |-> <<>>, urls |-> <<>>])
            IN  /\ Calls = walk.calls
                /\ all_urls = walk.urls)
    /\ [][/\ Len(log') <= Len(log) + 1
          /\ Len(log') = Len(log) + 1 =>
                /\ stack # <<>>
                /\ log'[Len(log')].arg \in {Top.package_name} \cup SeqToSet(Top.results)]_vars

\* a names b then c, b names d: d was looked up after b's metadata was read and
\* before c was looked up, and a's URL is the first returned
C17_Witness ==
    /\ pc = "download"
    /\ packages = <<"a">>
    /\ "a" \in DOMAIN resolved
    /\ resolved["a"].deps = <<"b", "c">>
    /\ "b" \in DOMAIN resolved
    /\ resolved["b"].deps = <<"d", "A">>
    /\ \E i, j \in 1..Len(log) :
          /\ i < j
          /\ log[i] = [call |-> "lookup", arg |-> "d", entry |-> 1]
          /\ log[j] = [call |-> "lookup", arg |-> "c", entry |-> 1]
    /\ returned[1][1] = resolved["a"].url
    /\ Len(returned[1]) >= 3

(***************************************************************************)
(* Two resolvers.  The script constructs two RemoteWheelInspector objects  *)
(* and resolves each wishlist entry on one of them.  visited is the set of *)
(* the resolver that is running, parked the set of the other one; line 29  *)
(* gives each object a set of its own.                                     *)
(***************************************************************************)
\* self.visited of a resolver made by a class that keeps one set for all its objects
InstanceVisitedShared(own, running) == running

\* self.visited of the resolver that takes over: the set line 29 made for it
InstanceVisited(own, running) == own

PairInit ==
    /\ pc = "wishlist"
    /\ packages \in SeqsUpTo(SpelledNames, MaxWish)
    /\ pkg_i = 1
    /\ all_urls = <<>>
    /\ returned = <<>>
    /\ visited = {}
    /\ parked = {}
    /\ switches = {}
    /\ earlier = <<>>
    /\ stack = <<>>
    /\ index = EmptyMap
    /\ wheels = EmptyMap
    /\ resolved = EmptyMap
    /\ log = <<>>
    /\ todo = <<>>
    /\ urls = <<>>
    /\ runs = <<>>
    /\ disk = EmptyMap
    /\ index_map = EmptyMap
    /\ pages = EmptyMap
    /\ sel_files = <<>>
    /\ sel_out = None
    /\ ParseIdle
    /\ Constructed

\* between two top-level calls the script turns to its other resolver
SwitchInstance ==
    /\ pc = "wishlist"
    /\ stack = <<>>
    /\ pkg_i <= Len(packages)
    /\ pkg_i \notin switches
    /\ switches' = switches \cup {pkg_i}
    /\ visited' = InstanceVisited(parked, visited)
    /\ parked' = visited
    /\ UNCHANGED <<pc, packages, pkg_i, all_urls, returned, stack, index, wheels,
                   resolved, log, todo, disk, index_map, pages, sel_files, sel_out,
                   parse_vars, rerun_vars, tag_vars, earlier>>

PairNext ==
    \/ MainCallResolve
    \/ ResolveFetch
    \/ ResolveMetadata
    \/ DepCallResolve
    \/ ResolveReturn
    \/ Deduplicate
    \/ SwitchInstance

PairSpec == PairInit /\ [][PairNext]_vars

\* the resolver (1 or 2) that wishlist entry k is resolved on
InstanceOf(k) == 1 + (Cardinality({j \in switches : j <= k}) % 2)

\* the resolver that is running, or ran last
Running == InstanceOf(pkg_i)

\* the dependency names (case-folded) of the manifest fetched from url
NamesIn(url) ==
    LET metadata == GetRemoteMetadata(wheels[url])
    IN  IF metadata.is_none THEN {}
        ELSE LET dependencies == ParseDeps(metadata.value, env_context)
             IN  {StrLower(dependencies[i].name) : i \in 1..Len(dependencies)}

\* the names resolve was called with on resolver r: the wishlist entries resolved on
\* it and the dependencies read, on it, from the manifests
PassedTo(r) ==
    {StrLower(packages[k]) : k \in {j \in 1..Len(packages) : j <= pkg_i /\ InstanceOf(j) = r}}
        \cup UNION {NamesIn(log[i].arg) :
                       i \in {j \in 1..Len(log) : log[j].call = "metadata"
                                                  /\ InstanceOf(log[j].entry) = r}}

(***************************************************************************)
(* C18.  The visited set of a resolver instance only grows: no operation   *)
(* removes a name from it, every name in it was passed to resolve on that  *)
(* instance, and operations on one instance leave the visited set and the  *)
(* results of every other instance unchanged.                              *)
(***************************************************************************)
C18_VisitedGrowsPerInstance ==
    /\ [][IF switches' # switches
          THEN visited' = parked /\ parked' = visited
          ELSE visited \subseteq visited' /\ parked' = parked]_vars
    /\ [](/\ visited \subseteq PassedTo(Running)
          /\ parked \subseteq PassedTo(3 - Running))
    /\ [][\A k \in 1..Len(returned) : returned'[k] = returned[k]]_vars

\* my_pkg was resolved on the first resolver and then again on the second, which
\* looked it up itself
C18_Witness ==
    /\ pc = "download"
    /\ packages = <<"my_pkg", "my_pkg">>
    /\ switches = {2}
    /\ parked = {"my_pkg", "my.pkg"}
    /\ visited = {"my_pkg", "my.pkg"}
    /\ returned[1] # <<>>
    /\ returned[2] = returned[1]

(***************************************************************************)
(* C19.  A package name is marked visited before its index lookup and is   *)
(* never unmarked, so when the lookup fails, returns no files or yields no *)
(* compatible artifact, every later resolve of that name on the same       *)
(* instance returns the empty list without retrying the lookup, and the    *)
(* package contributes no URL to the run.                                  *)
(***************************************************************************)
\* the step in hand is an index lookup
LooksUpNow == Len(log') = Len(log) + 1 /\ log'[Len(log')].call = "lookup"

\* the positions of the log holding a lookup of the name p
LookupsOf(p) == {i \in 1..Len(log) : IsLookup(log[i]) /\ log[i].arg = p}

C19_FailedNameIsNeverRetried ==
    /\ [][LooksUpNow => log'[Len(log')].arg \in visited]_vars
    /\ [][visited \subseteq visited']_vars
    /\ [](\A p \in DOMAIN index :
            LookupFailed(p) =>
                /\ p \in visited
                /\ Cardinality(LookupsOf(p)) = 1
                /\ \A k \in 1..Len(returned) :
                      /\ StrLower(packages[k]) = p => returned[k] = <<>>
                      /\ \A i \in 1..Len(returned[k]) :
                            /\ returned[k][i] \notin {FilesOf(p)[j].url : j \in 1..Len(FilesOf(p))}
                            /\ \E q \in DOMAIN resolved : resolved[q].url = returned[k][i])

\* the lookup of a met a transport failure; the later entry A made no call and
\* returned the empty list
C19_Witness ==
    /\ pc = "download"
    /\ packages = <<"a", "A">>
    /\ index["a"] = TransportError
    /\ Len(log) = 1
    /\ returned = << <<>>, <<>> >>

(***************************************************************************)
(* The script run on a wishlist and then, with a fresh resolver and the    *)
(* same index contents, on the same wishlist in another order.             *)
(***************************************************************************)
MaxOrders == 2      \* runs of the script on orderings of one wishlist

\* how often x occurs in the sequence q
Count(q, x) == Cardinality({i \in 1..Len(q) : q[i] = x})

\* the other orderings of the wishlist q
Reorderings(q) ==
    {r \in SeqsUpTo(SeqToSet(q), Len(q)) :
        /\ Len(r) = Len(q)
        /\ r # q
        /\ \A x \in SeqToSet(q) : Count(r, x) = Count(q, x)}

\* the wishlists of the pool that have another ordering
OrderInit ==
    /\ pc = "wishlist"
    /\ packages \in {q \in SeqsUpTo({"a", "d"}, MaxWish) : Reorderings(q) # {}}
    /\ pkg_i = 1
    /\ all_urls = <<>>
    /\ returned = <<>>
    /\ visited = {}
    /\ stack = <<>>
    /\ index = EmptyMap
    /\ wheels = EmptyMap
    /\ resolved = EmptyMap
    /\ log = <<>>
    /\ todo = <<>>
    /\ urls = <<>>
    /\ runs = <<>>
    /\ disk = EmptyMap
    /\ index_map = EmptyMap
    /\ pages = EmptyMap
    /\ sel_files = <<>>
    /\ sel_out = None
    /\ ParseIdle
    /\ Alone
    /\ Constructed

\* lines 223-246 once more: a fresh RemoteWheelInspector resolves the wishlist in
\* another order; the index and the file host answer as they did
RunReordered ==
    /\ pc = "wishlist"
    /\ stack = <<>>
    /\ pkg_i > Len(packages)
    /\ Len(earlier) + 1 < MaxOrders
    /\ packages' \in Reorderings(packages)
    /\ earlier' = Append(earlier, [packages |-> packages, unique_urls |-> SeqToSet(all_urls)])
    /\ visited' = {}
    /\ pkg_i' = 1
    /\ all_urls' = <<>>
    /\ returned' = <<>>
    /\ log' = <<>>
    /\ resolved' = EmptyMap
    /\ UNCHANGED <<pc, stack, index, wheels, todo, disk, index_map, pages, sel_files, sel_out,
                   parse_vars, rerun_vars, tag_vars, pair_vars>>

OrderNext ==
    \/ MainCallResolve
    \/ ResolveFetch
    \/ ResolveMetadata
    \/ DepCallResolve
    \/ ResolveReturn
    \/ Deduplicate
    \/ RunReordered

OrderSpec == OrderInit /\ [][OrderNext]_vars

(***************************************************************************)
(* C20.  The deduplicated URL set handed to the mirror builder does not    *)
(* depend on the order of the wishlist entries: for any two permutations   *)
(* of the same wishlist run on fresh resolver instances against the same   *)
(* index contents, the set of the union of the resolve results is the      *)
(* same.                                                                   *)
(***************************************************************************)
C20_WishlistOrderIsImmaterial ==
    pc = "download" =>
        \A k \in 1..Len(earlier) : SeqToSet(urls) = earlier[k].unique_urls

\* a then d, and d then a: the first run reached d through a, the second reached a
\* through d, and both ended with the same urls
C20_Witness ==
    /\ pc = "download"
    /\ packages = <<"d", "a">>
    /\ earlier # <<>>
    /\ earlier[1].packages = <<"a", "d">>
    /\ returned[2] = <<>>
    /\ Cardinality(SeqToSet(urls)) >= 3

====
